---- MODULE Spec2Model ----
(***************************************************************************)
(* A model of the DeviceFinder.ai RAG context service:                     *)
(*   src/ingest_data.py  chunk_text, ingest_text_file                      *)
(*   src/mcp_server.py   retrieve_context_tool, mcp_tools_call,            *)
(*                       retrieve_context_direct, startup_event            *)
(*                                                                         *)
(* Strings are sequences of characters (one-character TLA+ strings); a     *)
(* multi-character token stands for a run of plain ASCII letters that no   *)
(* operation of the program looks into (a log message, a number's repr).   *)
(***************************************************************************)
EXTENDS Integers, Sequences, FiniteSets, TLC

VARIABLES
    \* ---- chunk_text's frame (src/ingest_data.py:17-49) ----
    ct_pc,            \* "call" | "loop" | "done": position in chunk_text
    ct_text,          \* argument text
    ct_chunk_size,    \* argument chunk_size
    ct_overlap,       \* argument overlap
    ct_start,         \* local start
    ct_chunks,        \* local chunks
    ct_iter,          \* number of loop iterations executed so far (ghost)
    \* ---- the persisted vector store (./chroma_rag_db) ----
    store,            \* [exists, docs]: the Collection "chatbot_context"
    \* ---- the server process (src/mcp_server.py:35-36) ----
    context_collection,   \* "None" | "handle": the global set at startup
    \* ---- the environment ----
    now,              \* the reading datetime.utcnow() gives
    \* ---- history (ghost) ----
    last              \* the last operation: its input, what it returned, its store calls

ct_vars == <<ct_pc, ct_text, ct_chunk_size, ct_overlap, ct_start, ct_chunks, ct_iter>>

sys_vars == <<store, context_collection, now, last>>

vars == <<ct_vars, sys_vars>>

-----------------------------------------------------------------------------
(* Bounds of the model *)

\* the Ingestor is run while its chunks fit into a Collection of MaxDocs chunks
MaxDocs == 4
\* the clock readings are 0..MaxClock
MaxClock == 1

\* longest text handed to chunk_text in SpecChunk
MaxLen == 4
\* largest chunk_size (and overlap) handed to chunk_text in SpecChunk
MaxSize == 3
\* loop iterations of chunk_text that SpecChunk follows: more than any
\* terminating call needs (a call with start offsets 0, step, 2*step, ...
\* below len(text) makes at most len(text) iterations)
MaxIter == MaxLen + 2

-----------------------------------------------------------------------------
(* Python strings *)

Min(a, b) == IF a < b THEN a ELSE b
Max(a, b) == IF a > b THEN a ELSE b

\* the characters str.strip() removes
Whitespace == {" ", "\n"}

\* s[a:b] for a Python sequence s: a negative index counts from the end,
\* indices are clamped to [0, len(s)], an empty range gives the empty string
PySlice(s, a, b) ==
    LET n  == Len(s)
        lo == IF a < 0 THEN Max(a + n, 0) ELSE Min(a, n)
        hi == IF b < 0 THEN Max(b + n, 0) ELSE Min(b, n)
    IN  IF lo < hi THEN SubSeq(s, lo + 1, hi) ELSE <<>>

\* s.strip(): s without its leading and trailing whitespace
Strip(s) ==
    LET n      == Len(s)
        first  == IF \A i \in 1..n : s[i] \in Whitespace THEN n + 1
                  ELSE CHOOSE i \in 1..n :
                           /\ s[i] \notin Whitespace
                           /\ \A j \in 1..(i - 1) : s[j] \in Whitespace
        last_  == IF first > n THEN 0
                  ELSE CHOOSE i \in 1..n :
                           /\ s[i] \notin Whitespace
                           /\ \A j \in (i + 1)..n : s[j] \in Whitespace
    IN  SubSeq(s, first, last_)

-----------------------------------------------------------------------------
(* chunk_text, src/ingest_data.py:17-49 *)

\* LoopBody without the strip() of line 41
LoopBody_NoStrip(text, chunk_size, overlap, start, chunks) ==
    LET end   == start + chunk_size
        chunk == PySlice(text, start, end)
    IN  [start  |-> start + (chunk_size - overlap),
         chunks |-> IF chunk # <<>> THEN Append(chunks, chunk) ELSE chunks]

\* the loop body advancing by chunk_size, the overlap forgotten
LoopBody_NoOverlap(text, chunk_size, overlap, start, chunks) ==
    LET end   == start + chunk_size
        chunk == Strip(PySlice(text, start, end))
    IN  [start  |-> start + chunk_size,
         chunks |-> IF chunk # <<>> THEN Append(chunks, chunk) ELSE chunks]

\* one iteration of the while loop (lines 40-46): the next start and chunks
LoopBody(text, chunk_size, overlap, start, chunks) ==
    LET end   == start + chunk_size
        chunk == Strip(PySlice(text, start, end))
    IN  [start  |-> start + (chunk_size - overlap),
         chunks |-> IF chunk # <<>> THEN Append(chunks, chunk) ELSE chunks]

\* the while loop (lines 39-46), run to its end
RECURSIVE WhileLoop(_, _, _, _, _)
WhileLoop(text, chunk_size, overlap, start, chunks) ==
    IF start < Len(text)
    THEN LET s == LoopBody(text, chunk_size, overlap, start, chunks)
         IN  WhileLoop(text, chunk_size, overlap, s.start, s.chunks)
    ELSE chunks

\* chunk_text(text, chunk_size, overlap) as a function of its arguments
chunk_text(text, chunk_size, overlap) ==
    IF text = <<>> THEN <<>>
    ELSE WhileLoop(text, chunk_size, overlap, 0, <<>>)

-----------------------------------------------------------------------------
(* The file system the Ingestor reads: path -> file.  A path is a string of  *)
(* characters; "/" separates directories.                                    *)

\* a text of n copies of character c
Rep(c, n) == [i \in 1..n |-> c]

\* src/ingest_data.py:13-14
CHUNK_SIZE == 500
OVERLAP == 50

\* a short file: one chunk, with blanks around the text
ShortText == <<" ", "a", "\"", "U+00E9", "\n">>
\* a file shorter than CHUNK_SIZE and longer than CHUNK_SIZE - OVERLAP
LongText == Rep("a", 455) \o <<" ", "b", "b", " ", "c">>
\* a file of whitespace only
BlankText == <<" ", "\n">>

PathShort == <<"k">>
PathLong == <<"d", "/", "l", " ", "l">>
PathBlank == <<"e">>
PathMissing == <<"x">>

Paths == <<PathShort, PathLong, PathBlank, PathMissing>>

\* os.path.exists(file_path), and what f.read() gives
FileExists(file_path) == file_path # PathMissing
FileContent(file_path) ==
    IF file_path = PathShort THEN ShortText
    ELSE IF file_path = PathLong THEN LongText
    ELSE BlankText

\* os.path.basename(file_path): what follows the last "/"
Basename(file_path) ==
    LET seps == {i \in 1..Len(file_path) : file_path[i] = "/"}
    IN  IF seps = {} THEN file_path
        ELSE SubSeq(file_path, (CHOOSE i \in seps : \A j \in seps : j <= i) + 1,
                    Len(file_path))

\* s.replace(old, new) for one-character old and new
Replace(s, old, new) == [i \in 1..Len(s) |-> IF s[i] = old THEN new ELSE s[i]]

\* datetime.utcnow().isoformat() of clock reading t: one token per reading
IsoFormat(t) == <<"T", ToString(t)>>

-----------------------------------------------------------------------------
(* The vector store (chromadb), as the program uses it *)

\* collection.count()
Count(st) == Len(st.docs)

StoredIds(st) == {st.docs[i].id : i \in 1..Len(st.docs)}

\* get_or_create_collection handing out a new, empty Collection every time
GetOrCreate_Fresh(st) == [exists |-> TRUE, docs |-> <<>>]

\* client.get_or_create_collection(name=COLLECTION_NAME)
GetOrCreate(st) == [st EXCEPT !.exists = TRUE]

\* collection.add(documents, metadatas, ids): the records are appended; a
\* record whose id the Collection already holds is skipped (chromadb logs
\* "Add of existing embedding ID" and keeps the stored record)
RECURSIVE AddRecords(_, _)
AddRecords(st, records) ==
    IF records = <<>> THEN st
    ELSE LET r    == Head(records)
             next == IF r.id \in StoredIds(st) THEN st
                     ELSE [st EXCEPT !.docs = Append(@, r)]
         IN  AddRecords(next, Tail(records))

-----------------------------------------------------------------------------
(* ingest_text_file, src/ingest_data.py:52-156 *)

\* line 78 with the strip() dropped: "if not content"
ContentEmpty_NoStrip(content) == content = <<>>

\* line 78: not content.strip()
ContentEmpty(content) == Strip(content) = <<>>

\* line 124: f"{file_name}_{i}_{timestamp}".replace(" ", "_").replace("/", "_")
chunk_id(file_name, i, timestamp) ==
    Replace(Replace(file_name \o <<"_", ToString(i), "_">> \o timestamp, " ", "_"),
            "/", "_")

\* lines 104-125: the records of one run; i is enumerate's index, from 0
PrepareRecords(chunks, file_name, timestamp) ==
    [k \in 1..Len(chunks) |->
        [id       |-> chunk_id(file_name, k - 1, timestamp),
         document |-> chunks[k],
         metadata |-> [source_file  |-> file_name,
                       chunk_index  |-> k - 1,
                       total_chunks |-> Len(chunks),
                       indexed_at   |-> timestamp,
                       chunk_size   |-> Len(chunks[k])]]]

\* What one call does.  fault names the external call that fails, if any:
\* "read" (open/read), "connect" (PersistentClient, get_or_create_collection),
\* "add" (collection.add), "count" (collection.count), or "none".
\* The result: returned (the int returned), raised (an exception left the
\* function), store (the Collection afterwards), calls (the external calls
\* made, in order), ids (the identifiers prepared), chunks (how many chunks
\* were prepared).
ingest_text_file(file_path, st, clock, fault) ==
    LET none(calls, st2) ==
            [returned |-> 0, raised |-> FALSE, store |-> st2, calls |-> calls,
             ids |-> <<>>, chunks |-> 0]
        content   == FileContent(file_path)
        connected == GetOrCreate(st)
        chunks    == chunk_text(content, CHUNK_SIZE, OVERLAP)
        timestamp == IsoFormat(clock)
        file_name == Basename(file_path)
        records   == PrepareRecords(chunks, file_name, timestamp)
        ids       == [k \in 1..Len(records) |-> records[k].id]
        written   == AddRecords(connected, records)
    IN  IF ~FileExists(file_path) THEN none(<<>>, st)                  \* 67-69
        ELSE IF fault = "read" THEN none(<<"read">>, st)               \* 72-73, 149-153
        ELSE IF ContentEmpty(content) THEN none(<<"read">>, st)        \* 78-80
        ELSE IF fault = "connect" THEN none(<<"read", "connect">>, st) \* 84-93
        ELSE IF chunks = <<>> THEN none(<<"read", "connect">>, connected)   \* 98-100
        ELSE IF fault = "add"                                          \* 130, 143-147
             THEN [returned |-> 0, raised |-> FALSE, store |-> connected,
                   calls |-> <<"read", "connect", "add">>, ids |-> ids,
                   chunks |-> Len(chunks)]
        ELSE IF fault = "count"                                        \* 138, 143-147
             THEN [returned |-> 0, raised |-> FALSE, store |-> written,
                   calls |-> <<"read", "connect", "add", "count">>, ids |-> ids,
                   chunks |-> Len(chunks)]
        ELSE [returned |-> Len(chunks), raised |-> FALSE, store |-> written,  \* 141
              calls |-> <<"read", "connect", "add", "count">>, ids |-> ids,
              chunks |-> Len(chunks)]

\* the calls to the vector store among calls
StoreCalls(calls) == SelectSeq(calls, LAMBDA c : c # "read")

-----------------------------------------------------------------------------
(* clear_collection and view_collection_stats, src/ingest_data.py:159-261 *)

\* client.get_collection(name=COLLECTION_NAME) finds the Collection; it raises
\* when there is none
HasCollection(st) == st.exists

\* client.delete_collection(name=COLLECTION_NAME): the Collection and all it
\* holds are gone
DeleteCollection(st) == [exists |-> FALSE, docs |-> <<>>]

\* client.create_collection(name=COLLECTION_NAME, ...): a new, empty Collection
CreateCollection(st) == [exists |-> TRUE, docs |-> <<>>]

\* What one call of clear_collection does.  fault names the external call that
\* fails, if any: "connect" (PersistentClient), "get" (get_collection),
\* "count", "delete", "create", or "none".  The result: returned (the bool
\* returned), store (the Collection afterwards), calls (the external calls
\* made, in order).
clear_collection(st, fault) ==
    LET out(returned, st2, calls) ==
            [returned |-> returned, store |-> st2, calls |-> calls]
        deleted == DeleteCollection(st)
    IN  IF fault = "connect" THEN out(FALSE, st, <<"connect">>)         \* 172, 204-208
        ELSE IF fault = "get" \/ ~HasCollection(st)                     \* 176, 200-202
             THEN out(FALSE, st, <<"connect", "get">>)
        ELSE IF fault = "count"                                         \* 177
             THEN out(FALSE, st, <<"connect", "get", "count">>)
        ELSE IF Count(st) = 0                                           \* 181-183
             THEN out(TRUE, st, <<"connect", "get", "count">>)
        ELSE IF fault = "delete"                                        \* 187
             THEN out(FALSE, st, <<"connect", "get", "count", "delete">>)
        ELSE IF fault = "create"                                        \* 192-195
             THEN out(FALSE, deleted,
                      <<"connect", "get", "count", "delete", "create">>)
        ELSE out(TRUE, CreateCollection(deleted),                       \* 198
                 <<"connect", "get", "count", "delete", "create">>)

\* str.lower() over the letters an answer is made of
Lower(s) ==
    [i \in 1..Len(s) |-> CASE s[i] = "Y" -> "y"
                           [] s[i] = "E" -> "e"
                           [] s[i] = "S" -> "s"
                           [] s[i] = "N" -> "n"
                           [] s[i] = "O" -> "o"
                           [] OTHER -> s[i]]

\* line 285: confirm.lower() == "yes"
Confirmed(confirm) == Lower(confirm) = <<"y", "e", "s">>

\* collection.get(limit=3) and the previews printed of it (lines 238-242)
SAMPLE_LIMIT == 3
PREVIEW_LENGTH == 100
SamplePreviews(st) ==
    [k \in 1..Min(SAMPLE_LIMIT, Count(st)) |->
        Replace(PySlice(st.docs[k].document, 0, PREVIEW_LENGTH), "\n", " ")]

\* What one call of view_collection_stats does.  fault is "connect", "get",
\* "count", "sample" (collection.get) or "none".  The result: error (an
\* {"error": ...} dictionary was returned), total_documents, printed (the
\* previews printed), store (the Collection afterwards), calls.
view_collection_stats(st, fault) ==
    LET failed(calls) ==
            [error |-> TRUE, total_documents |-> 0, printed |-> <<>>,
             store |-> st, calls |-> calls]
    IN  IF fault = "connect" THEN failed(<<"connect">>)                 \* 226, 256-258
        ELSE IF fault = "get" \/ ~HasCollection(st)                     \* 229, 252-254
             THEN failed(<<"connect", "get">>)
        ELSE IF fault = "count"                                         \* 230
             THEN failed(<<"connect", "get", "count">>)
        ELSE IF Count(st) = 0                                           \* 236
             THEN [error |-> FALSE, total_documents |-> 0, printed |-> <<>>,
                   store |-> st, calls |-> <<"connect", "get", "count">>]
        ELSE IF fault = "sample"                                        \* 238
             THEN failed(<<"connect", "get", "count", "sample">>)
        ELSE [error |-> FALSE, total_documents |-> Count(st),           \* 244-250
              printed |-> SamplePreviews(st), store |-> st,
              calls |-> <<"connect", "get", "count", "sample">>]

-----------------------------------------------------------------------------
(* Python values, as the server handles them: a tag t and a payload v *)

PNone == [t |-> "null", v |-> <<>>]
PStr(chars) == [t |-> "str", v |-> chars]
PNum(n) == [t |-> "num", v |-> <<n>>]
PList(items) == [t |-> "list", v |-> items]
\* a dict: its items <<key, value>> in insertion order; keys are plain names
PDict(items) == [t |-> "dict", v |-> items]

HasKey(d, key) == \E i \in 1..Len(d.v) : d.v[i][1] = key

\* d.get(key, default)
DictGet(d, key, default) ==
    IF HasKey(d, key)
    THEN d.v[CHOOSE i \in 1..Len(d.v) : d.v[i][1] = key][2]
    ELSE default

\* "not x" with the None test only: "if x is None"
Falsy_OnlyNone(x) == x.t = "null"

\* Python's "not x": None, "", 0, [] and {} are false
Falsy(x) ==
    \/ x.t = "null"
    \/ x.t \in {"str", "list", "dict"} /\ x.v = <<>>
    \/ x.t = "num" /\ x.v[1] = 0

-----------------------------------------------------------------------------
(* json.dumps and json.loads.  A JSON text is modelled by its parse tree    *)
(* [t |-> "json", v |-> <<tree>>] in which every string is in its escaped    *)
(* form and every number is its decimal repr.                               *)

\* a character outside ASCII
NonAscii == "U+00E9"

\* the numbers the server turns into JSON
NumRange == -9..9

NeedsEscape(c, ensure_ascii) ==
    c \in {"\"", "\\", "\n"} \/ (ensure_ascii /\ c = NonAscii)

EscapeChar(c, ensure_ascii) ==
    IF c = "\n" THEN <<"\\", "n">>
    ELSE IF c \in {"\"", "\\"} THEN <<"\\", c>>
    ELSE IF ensure_ascii /\ c = NonAscii THEN <<"\\", "u", "00e9">>
    ELSE <<c>>

RECURSIVE EscapeFrom(_, _, _)
EscapeFrom(chars, i, ensure_ascii) ==
    IF i > Len(chars) THEN <<>>
    ELSE EscapeChar(chars[i], ensure_ascii) \o EscapeFrom(chars, i + 1, ensure_ascii)

\* the body of a JSON string literal for chars
Escape(chars, ensure_ascii) ==
    IF \A i \in 1..Len(chars) : ~NeedsEscape(chars[i], ensure_ascii) THEN chars
    ELSE EscapeFrom(chars, 1, ensure_ascii)

RECURSIVE UnescapeFrom(_, _)
UnescapeFrom(body, i) ==
    IF i > Len(body) THEN <<>>
    ELSE IF body[i] # "\\" THEN <<body[i]>> \o UnescapeFrom(body, i + 1)
    ELSE IF body[i + 1] = "n" THEN <<"\n">> \o UnescapeFrom(body, i + 2)
    ELSE IF body[i + 1] = "u" THEN <<NonAscii>> \o UnescapeFrom(body, i + 3)
    ELSE <<body[i + 1]>> \o UnescapeFrom(body, i + 2)

\* the string a JSON string literal's body stands for
Unescape(body) ==
    IF \A i \in 1..Len(body) : body[i] # "\\" THEN body
    ELSE UnescapeFrom(body, 1)

RECURSIVE Encode(_, _)
Encode(x, ensure_ascii) ==
    IF x.t = "str" THEN [t |-> "str", v |-> Escape(x.v, ensure_ascii)]
    ELSE IF x.t = "num" THEN [t |-> "num", v |-> <<ToString(x.v[1])>>]
    ELSE IF x.t = "list"
         THEN [t |-> "list", v |-> [i \in 1..Len(x.v) |-> Encode(x.v[i], ensure_ascii)]]
    ELSE IF x.t = "dict"
         THEN [t |-> "dict",
               v |-> [i \in 1..Len(x.v) |-> <<x.v[i][1], Encode(x.v[i][2], ensure_ascii)>>]]
    ELSE x

RECURSIVE Decode(_)
Decode(x) ==
    IF x.t = "str" THEN [t |-> "str", v |-> Unescape(x.v)]
    ELSE IF x.t = "num"
         THEN [t |-> "num", v |-> <<CHOOSE n \in NumRange : ToString(n) = x.v[1]>>]
    ELSE IF x.t = "list"
         THEN [t |-> "list", v |-> [i \in 1..Len(x.v) |-> Decode(x.v[i])]]
    ELSE IF x.t = "dict"
         THEN [t |-> "dict", v |-> [i \in 1..Len(x.v) |-> <<x.v[i][1], Decode(x.v[i][2])>>]]
    ELSE x

\* json.dumps(x, ensure_ascii=...)
json_dumps(x, ensure_ascii) == [t |-> "json", v |-> <<Encode(x, ensure_ascii)>>]

\* json.loads(text)
json_loads(text) == Decode(text.v[1])

-----------------------------------------------------------------------------
(* The store's nearest-neighbour query, src/mcp_server.py:272-275 *)

\* src/mcp_server.py:41
TOP_K_RESULTS == 3

\* the cosine distance between the embeddings of a query and of a document:
\* a fixed function of the two texts, with values in [0, 2]
Distance(q, document) == (Len(q) + Len(document)) % 3

\* whether docs[i] comes before docs[j] in the store's ranking for q:
\* ascending distance, the earlier record first among equals
Nearer(docs, q, i, j) ==
    LET di == Distance(q, docs[i].document)
        dj == Distance(q, docs[j].document)
    IN  di < dj \/ (di = dj /\ i < j)

\* the position of docs[i] in the ranking, from 1
Rank(docs, q, i) == 1 + Cardinality({j \in 1..Len(docs) : Nearer(docs, q, j, i)})

\* collection.query(query_texts=[q], n_results=n)
QueryStore(docs, q, n) ==
    LET m   == Min(n, Len(docs))
        at  == [k \in 1..m |-> CHOOSE i \in 1..Len(docs) : Rank(docs, q, i) = k]
    IN  [ids       |-> [k \in 1..m |-> docs[at[k]].id],
         documents |-> [k \in 1..m |-> docs[at[k]].document],
         distances |-> [k \in 1..m |-> Distance(q, docs[at[k]].document)]]

-----------------------------------------------------------------------------
(* retrieve_context_tool, src/mcp_server.py:199-351 *)

\* line 274: min(TOP_K_RESULTS, doc_count)
n_results(doc_count) == Min(TOP_K_RESULTS, doc_count)

\* line 309: 1 - distance
relevance_score(distance) == 1 - distance

\* lines 304-311 building the list from the last result to the first
context_chunks_Reversed(results) ==
    [k \in 1..Len(results.ids) |->
        LET i == Len(results.ids) + 1 - k
        IN  PDict(<< <<"chunk_id", PStr(results.ids[i])>>,
                     <<"content", PStr(results.documents[i])>>,
                     <<"relevance_score", PNum(relevance_score(results.distances[i]))>> >>)]

\* lines 304-311: one chunk per result, in the results' order
context_chunks(results) ==
    [i \in 1..Len(results.ids) |->
        PDict(<< <<"chunk_id", PStr(results.ids[i])>>,
                 <<"content", PStr(results.documents[i])>>,
                 <<"relevance_score", PNum(relevance_score(results.distances[i]))>> >>)]

\* the MCP-formatted result around a JSON text (lines 219-229, 325-332)
McpContent(text) ==
    PDict(<< <<"content",
               PList(<< PDict(<< <<"type", PStr(<<"text">>)>>, <<"text", text>> >>) >>)>> >>)

\* the empty result with a warning (lines 219-229 and its four repetitions)
EmptyResult(query, message) ==
    McpContent(json_dumps(PDict(<< <<"query", query>>,
                                   <<"context_chunks", PList(<<>>)>>,
                                   <<"chunks_found", PNum(0)>>,
                                   <<"warning", PStr(message)>> >>), TRUE))

\* lines 296-332: the result for what the store returned
FormatResults(query, results) ==
    LET chunks == IF results.ids = <<>> THEN <<>> ELSE context_chunks(results)
    IN  McpContent(json_dumps(PDict(<< <<"query", query>>,
                                       <<"context_chunks", PList(chunks)>>,
                                       <<"chunks_found", PNum(Len(chunks))>> >>), FALSE))

\* What one call does.  collection is the global context_collection, docs the
\* Collection's records, fault the store call that fails, if any ("count",
\* "query" or "none").  The result: kind ("return" | "raise"), value (what is
\* returned), calls (the store calls made, in order).
retrieve_context_tool(arguments, collection, docs, fault) ==
    LET query     == DictGet(arguments, "query", PNone)                  \* 214
        doc_count == Len(docs)                                            \* 251
        n         == n_results(doc_count)
        ret(value, calls) == [kind |-> "return", value |-> value, calls |-> calls]
    IN  IF arguments.t # "dict"
        \* 214 raises AttributeError; the handler's arguments.get (345) raises it again
        THEN [kind |-> "raise", value |-> PNone, calls |-> <<>>]
        ELSE IF Falsy(query)                                              \* 215-229
        THEN ret(EmptyResult(PStr(<<>>), <<"Missing required argument: 'query'">>), <<>>)
        ELSE IF collection = "None"                                       \* 234-248
        THEN ret(EmptyResult(query, <<"ChromaDB collection not initialized">>), <<>>)
        ELSE IF fault = "count"                                           \* 251, 334-351
        THEN ret(EmptyResult(DictGet(arguments, "query", PStr(<<>>)),
                             <<"Unexpected error in retrieve_context: ", "count failed">>),
                 << <<"count">> >>)
        ELSE IF doc_count = 0                                             \* 252-266
        THEN ret(EmptyResult(query, <<"No documents in collection">>), << <<"count">> >>)
        ELSE IF fault = "query" \/ query.t # "str"                        \* 271-293
        THEN ret(EmptyResult(query, <<"ChromaDB query failed: ", "query failed">>),
                 << <<"count">>, <<"query", n>> >>)
        ELSE ret(FormatResults(query, QueryStore(docs, query.v, n)),      \* 295-332
                 << <<"count">>, <<"query", n>> >>)

-----------------------------------------------------------------------------
(* mcp_tools_call, src/mcp_server.py:120-196 *)

\* line 133 with the test dropped
VersionOk_Any(jsonrpc) == TRUE

\* line 133: request.jsonrpc == "2.0"
VersionOk(jsonrpc) == jsonrpc = "2.0"

\* MCPResponse(...).dict(): the four fields, None for what was not given
Envelope(id, result, error) ==
    [id |-> id, jsonrpc |-> "2.0", result |-> result, error |-> error]

\* {"code": code, "message": message}
ErrorObject(code, message) ==
    PDict(<< <<"code", PNum(code)>>, <<"message", PStr(message)>> >>)

NoTool == [called |-> FALSE]

\* the tool call mcp_tools_call and retrieve_context_direct make: what it was
\* handed and what came of it
ToolCall(arguments, collection, docs, fault) ==
    LET r == retrieve_context_tool(arguments, collection, docs, fault)
    IN  [called |-> TRUE, arguments |-> arguments, kind |-> r.kind,
         value |-> r.value, calls |-> r.calls]

\* What one request gets.  request is the validated MCPRequest: jsonrpc, id,
\* method, params (a dict or None).  The result: http (the status), body (the
\* envelope, or the HTTPException's detail), tool (the tool call made).
mcp_tools_call(request, collection, docs, fault) ==
    LET ok(body, tool) == [http |-> 200, body |-> body, tool |-> tool]
        internal == ok(Envelope(request.id, PNone,                        \* 186-196
                                ErrorObject(-32603, <<"Internal server error: ">>)),
                       NoTool)
        tool_name == DictGet(request.params, "name", PNone)                \* 140
        arguments == DictGet(request.params, "arguments", PDict(<<>>))     \* 141
        call      == ToolCall(arguments, collection, docs, fault)          \* 147
    IN  IF ~VersionOk(request.jsonrpc)                                     \* 133-136, 181-184
        THEN [http |-> 400, body |-> PStr(<<"Invalid JSON-RPC version: ">>),
              tool |-> NoTool]
        ELSE IF request.method = "tools/call"                              \* 139
        THEN IF request.params.t # "dict"      \* 140: None.get raises AttributeError
             THEN internal
             ELSE IF tool_name.t = "str" /\ tool_name.v = <<"retrieve_context">>   \* 146
             THEN IF call.kind = "raise"
                  THEN [internal EXCEPT !.tool = call]
                  ELSE ok(Envelope(request.id, call.value, PNone), call)   \* 149-157
             ELSE ok(Envelope(request.id, PNone,                           \* 159-168
                              ErrorObject(-32601, <<"Unknown tool: ">>)), NoTool)
        ELSE ok(Envelope(request.id, PNone,                                \* 170-179
                         ErrorObject(-32601, <<"Unknown method: ">>)), NoTool)

-----------------------------------------------------------------------------
(* retrieve_context_direct, src/mcp_server.py:359-395 *)

\* lines 373-379 returning the text undecoded
ExtractResult_Raw(result) ==
    DictGet(DictGet(result, "content", PNone).v[1], "text", PNone)

\* lines 373-375: json.loads(result["content"][0].get("text", "{}"))
ExtractResult(result) ==
    json_loads(DictGet(DictGet(result, "content", PNone).v[1], "text", PNone))

\* What one request gets.  request is the validated DirectContextRequest.
retrieve_context_direct(request, collection, docs, fault) ==
    LET call == ToolCall(PDict(<< <<"query", PStr(request.query)>> >>),   \* 370
                         collection, docs, fault)
    IN  IF call.kind = "raise"                                             \* 391-395
        THEN [http |-> 500, body |-> PStr(<<"Error in direct API: ">>), tool |-> call]
        ELSE IF Falsy(DictGet(call.value, "content", PNone))               \* 380-383
        THEN [http |-> 500, body |-> PStr(<<"No content in response">>), tool |-> call]
        ELSE [http |-> 200, body |-> ExtractResult(call.value), tool |-> call]  \* 373-379

-----------------------------------------------------------------------------
(* root, the health check, src/mcp_server.py:95-117 *)

\* What one GET / gets.  fault is "count" (context_collection.count fails) or
\* "none".  The result: status, documents_indexed, timestamp, calls (the
\* store calls made).
root(collection, docs, clock, fault) ==
    LET timestamp == IsoFormat(clock) \o <<"Z">>                           \* 109, 116
        calls     == IF collection = "None" THEN <<>> ELSE <<"count">>     \* 99
    IN  IF collection # "None" /\ fault = "count"                          \* 111-117
        THEN [status |-> "unhealthy", documents_indexed |-> 0,
              timestamp |-> timestamp, calls |-> calls]
        ELSE [status |-> "healthy",                                        \* 102-110
              documents_indexed |-> IF collection = "None" THEN 0 ELSE Len(docs),
              timestamp |-> timestamp, calls |-> calls]

-----------------------------------------------------------------------------
(* The requests the model sends *)

\* query strings: empty, plain, with a quote and a character outside ASCII
Queries == << <<>>, <<"a">>, <<"b", "\"", NonAscii>> >>

\* values of "arguments": not a dict, then dicts without and with a query
ArgumentsValues ==
    << PNone,
       PStr(<<"a">>),
       PDict(<<>>),
       PDict(<< <<"query", PNone>> >>),
       PDict(<< <<"query", PNum(7)>> >>) >>
    \o [i \in 1..Len(Queries) |-> PDict(<< <<"query", PStr(Queries[i])>> >>)]

\* params naming the tool, with each value of "arguments" and without the key
ToolParams(name) ==
    [i \in 1..Len(ArgumentsValues) |->
          PDict(<< <<"name", PStr(name)>>, <<"arguments", ArgumentsValues[i]>> >>)]
    \o << PDict(<< <<"name", PStr(name)>> >>) >>

\* values of "params"
ParamsValues ==
    ToolParams(<<"retrieve_context">>)
    \o << PNone, PDict(<<>>), PDict(<< <<"name", PStr(<<"other_tool">>)>> >>) >>

\* params for the requests that are turned down before params is read
FewParams ==
    << PNone,
       PDict(<< <<"name", PStr(<<"retrieve_context">>)>>,
                <<"arguments", PDict(<< <<"query", PStr(<<"a">>)>> >>)>> >>) >>

Ids == {1, 7}

\* the state the model starts in: nothing persisted, the server not started
SysInit ==
    /\ store = [exists |-> FALSE, docs |-> <<>>]
    /\ context_collection = "None"
    /\ now = 0
    /\ last = [op |-> "none"]

\* chunk_text is not running
ChunkIdle ==
    /\ ct_pc = "idle"
    /\ ct_text = <<>>
    /\ ct_chunk_size = CHUNK_SIZE
    /\ ct_overlap = OVERLAP
    /\ ct_start = 0
    /\ ct_chunks = <<>>
    /\ ct_iter = 0

\* The external calls that can fail in an operation are the calls it makes:
\* the faults to inject are "none" and each call of the fault-free run.
Faults(calls) == {"none"} \cup {calls[k] : k \in 1..Len(calls)}

\* The server's calls go through the handle it took at startup.  When the
\* Collection behind the handle is gone (a clear that deleted it and could not
\* recreate it), the first of them fails; otherwise any of them may.
HandleFaults(st, calls) ==
    IF st.exists \/ calls = <<>> THEN Faults(calls) ELSE {calls[1]}

\* the names of the store calls a tool call made
CallNames(tool) ==
    IF tool.called THEN [k \in 1..Len(tool.calls) |-> tool.calls[k][1]] ELSE <<>>

\* time passes between two operations
Tick ==
    /\ now < MaxClock
    /\ now' = now + 1
    /\ UNCHANGED <<store, context_collection, last, ct_vars>>

\* python ingest_data.py <file_path>
IngestTextFile ==
    /\ \E i \in 1..Len(Paths) :
        \E r0 \in {ingest_text_file(Paths[i], store, now, "none")} :
        \E fault \in Faults(r0.calls) :
        \E r \in {IF fault = "none" THEN r0
                  ELSE ingest_text_file(Paths[i], store, now, fault)} :
            /\ Count(store) + r.chunks <= MaxDocs
            /\ store' = r.store
            /\ last' = [op |-> "ingest", file_path |-> Paths[i], fault |-> fault,
                        returned |-> r.returned, raised |-> r.raised,
                        calls |-> r.calls, ids |-> r.ids, chunks |-> r.chunks,
                        before |-> store]
    /\ UNCHANGED <<context_collection, now, ct_vars>>

\* the server starts: startup_event, src/mcp_server.py:60-92
Startup ==
    /\ context_collection = "None"
    /\ context_collection' = "handle"
    /\ store' = GetOrCreate(store)
    /\ last' = [op |-> "startup"]
    /\ UNCHANGED <<now, ct_vars>>

\* one request to POST /mcp/tools/call
Handle(request) ==
    /\ \E r0 \in {mcp_tools_call(request, context_collection, store.docs, "none")} :
       \E fault \in HandleFaults(store, CallNames(r0.tool)) :
       \E r \in {IF fault = "none" THEN r0
                 ELSE mcp_tools_call(request, context_collection, store.docs, fault)} :
          last' = [op |-> "mcp", request |-> request, fault |-> fault,
                   http |-> r.http, body |-> r.body, tool |-> r.tool]
    /\ UNCHANGED <<store, context_collection, now, ct_vars>>

McpToolsCall ==
    \E id \in Ids :
        \/ \E i \in 1..Len(ParamsValues) :
              Handle([id |-> id, jsonrpc |-> "2.0",
                      params |-> ParamsValues[i], method |-> "tools/call"])
        \/ \E i \in 1..Len(FewParams) :
              Handle([id |-> id, jsonrpc |-> "2.0",
                      params |-> FewParams[i], method |-> "ping"])
        \/ \E i \in 1..Len(FewParams), method \in {"tools/call", "ping"} :
              Handle([id |-> id, jsonrpc |-> "1.0",
                      params |-> FewParams[i], method |-> method])

\* one request to POST /retrieve_context
RetrieveContextDirect ==
    /\ \E i \in 1..Len(Queries) :
       \E r0 \in {retrieve_context_direct([query |-> Queries[i]], context_collection,
                                          store.docs, "none")} :
       \E fault \in HandleFaults(store, CallNames(r0.tool)) :
       \E r \in {IF fault = "none" THEN r0
                 ELSE retrieve_context_direct([query |-> Queries[i]],
                                              context_collection, store.docs, fault)} :
            last' = [op |-> "direct", request |-> [query |-> Queries[i]],
                     fault |-> fault, http |-> r.http, body |-> r.body, tool |-> r.tool]
    /\ UNCHANGED <<store, context_collection, now, ct_vars>>

\* the answers typed at the prompt of --clear
Answers == << <<"y", "e", "s">>, <<"Y", "e", "S">>, <<"n", "o">> >>

\* python ingest_data.py --clear (lines 282-292): clear_collection runs only
\* after the answer "yes"
ClearCollection ==
    /\ \E i \in 1..Len(Answers) :
        IF Confirmed(Answers[i])
        THEN \E r0 \in {clear_collection(store, "none")} :
             \E fault \in Faults(r0.calls) :
             \E r \in {IF fault = "none" THEN r0 ELSE clear_collection(store, fault)} :
                /\ store' = r.store
                /\ last' = [op |-> "clear", confirm |-> Answers[i], called |-> TRUE,
                            fault |-> fault, returned |-> r.returned,
                            calls |-> r.calls, before |-> store]
        ELSE /\ store' = store
             /\ last' = [op |-> "clear", confirm |-> Answers[i], called |-> FALSE,
                         before |-> store]
    /\ UNCHANGED <<context_collection, now, ct_vars>>

\* python ingest_data.py --stats (lines 294-296)
ViewCollectionStats ==
    /\ \E r0 \in {view_collection_stats(store, "none")} :
       \E fault \in Faults(r0.calls) :
       \E r \in {IF fault = "none" THEN r0 ELSE view_collection_stats(store, fault)} :
          /\ store' = r.store
          /\ last' = [op |-> "stats", fault |-> fault, error |-> r.error,
                      total_documents |-> r.total_documents, printed |-> r.printed,
                      calls |-> r.calls, before |-> store]
    /\ UNCHANGED <<context_collection, now, ct_vars>>

\* one request to GET /
HealthCheck ==
    /\ \E r0 \in {root(context_collection, store.docs, now, "none")} :
       \E fault \in HandleFaults(store, r0.calls) :
       \E r \in {IF fault = "none" THEN r0
                 ELSE root(context_collection, store.docs, now, fault)} :
          last' = [op |-> "health", fault |-> fault, status |-> r.status,
                   documents_indexed |-> r.documents_indexed,
                   timestamp |-> r.timestamp, before |-> store]
    /\ UNCHANGED <<store, context_collection, now, ct_vars>>

Init == SysInit /\ ChunkIdle

Next ==
    \/ Tick
    \/ IngestTextFile
    \/ Startup
    \/ McpToolsCall
    \/ RetrieveContextDirect
    \/ ClearCollection
    \/ ViewCollectionStats
    \/ HealthCheck

Spec == Init /\ [][Next]_vars

-----------------------------------------------------------------------------
(* chunk_text step by step, for the claims about chunk_text alone *)


RECURSIVE Texts(_)
Texts(n) ==
    IF n = 0 THEN {<<>>}
    ELSE LET shorter == Texts(n - 1)
         IN  shorter \cup {Append(t, c) : t \in {u \in shorter : Len(u) = n - 1},
                                          c \in {"a", "b", " "}}

ChunkInit ==
    /\ SysInit
    /\ ct_pc = "call"
    /\ ct_text \in Texts(MaxLen)
    /\ ct_chunk_size \in 1..MaxSize
    /\ ct_overlap \in 0..MaxSize
    /\ ct_start = 0
    /\ ct_chunks = <<>>
    /\ ct_iter = 0

\* lines 31-37: the empty text returns at once; no check of the sizes
ChunkEnter ==
    /\ ct_pc = "call"
    /\ ct_pc' = IF ct_text = <<>> THEN "done" ELSE "loop"
    /\ UNCHANGED <<ct_text, ct_chunk_size, ct_overlap, ct_start, ct_chunks, ct_iter>>
    /\ UNCHANGED sys_vars

\* lines 39-46: one iteration
ChunkStep ==
    /\ ct_pc = "loop"
    /\ ct_start < Len(ct_text)
    /\ ct_iter < MaxIter
    /\ LET s == LoopBody(ct_text, ct_chunk_size, ct_overlap, ct_start, ct_chunks)
       IN  /\ ct_start' = s.start
           /\ ct_chunks' = s.chunks
    /\ ct_iter' = ct_iter + 1
    /\ UNCHANGED <<ct_pc, ct_text, ct_chunk_size, ct_overlap>>
    /\ UNCHANGED sys_vars

\* lines 39, 48-49: the loop condition fails, return chunks
ChunkExit ==
    /\ ct_pc = "loop"
    /\ ~(ct_start < Len(ct_text))
    /\ ct_pc' = "done"
    /\ UNCHANGED <<ct_text, ct_chunk_size, ct_overlap, ct_start, ct_chunks, ct_iter>>
    /\ UNCHANGED sys_vars

ChunkNext == ChunkEnter \/ ChunkStep \/ ChunkExit

SpecChunk == ChunkInit /\ [][ChunkNext]_vars

\* chunk_text is sequential code: a step that can be taken is taken
SpecChunkFair == SpecChunk /\ WF_vars(ChunkNext)

-----------------------------------------------------------------------------
(* Claims about chunk_text, checked under SpecChunk *)

\* C7 as stated: a text shorter than chunk_size that is non-empty after
\* trimming yields exactly one chunk, the whole trimmed text, for every
\* overlap with 0 <= overlap < chunk_size.
C7_ShortTextOneChunk ==
    (/\ ct_pc = "done"
     /\ Len(ct_text) < ct_chunk_size
     /\ Strip(ct_text) # <<>>
     /\ ct_overlap < ct_chunk_size)
    => ct_chunks = <<Strip(ct_text)>>

\* C7 (amended): such a text yields the whole trimmed text as its first chunk,
\* and that chunk is the only one exactly when text[chunk_size - overlap:] is
\* empty after trimming (so always when len(text) <= chunk_size - overlap).
C7_ShortTextFirstChunk ==
    (/\ ct_pc = "done"
     /\ Len(ct_text) < ct_chunk_size
     /\ Strip(ct_text) # <<>>
     /\ ct_overlap < ct_chunk_size)
    => /\ Len(ct_chunks) >= 1
       /\ ct_chunks[1] = Strip(ct_text)
       /\ (Len(ct_chunks) = 1) <=>
            (Strip(PySlice(ct_text, ct_chunk_size - ct_overlap, Len(ct_text))) = <<>>)
       /\ (Len(ct_text) <= ct_chunk_size - ct_overlap) => Len(ct_chunks) = 1

\* a short text with surrounding blanks and a positive overlap, chunked to one chunk
C7_Witness ==
    /\ ct_pc = "done"
    /\ Len(ct_text) < ct_chunk_size
    /\ ct_overlap > 0
    /\ ct_overlap < ct_chunk_size
    /\ Strip(ct_text) # <<>>
    /\ Strip(ct_text) # ct_text
    /\ ct_chunks = <<Strip(ct_text)>>

\* C8: chunk_text rejects a call with overlap >= chunk_size (its loop is never
\* entered with such sizes), and it terminates: a loop over the start offsets
\* 0, step, 2*step, ... below len(text) ends within len(text) iterations.
C8_RejectsMalformedSizes ==
    /\ (ct_overlap >= ct_chunk_size) => ct_pc # "loop"
    /\ ct_iter <= Len(ct_text)

\* the sizes are well formed: 0 <= overlap < chunk_size
C12_WellFormedSizes == 0 <= ct_overlap /\ ct_overlap < ct_chunk_size

\* the window text[s, s + chunk_size), trimmed; s counts from 0
C12_Window(s) ==
    Strip(SubSeq(ct_text, s + 1, Min(s + ct_chunk_size, Len(ct_text))))

\* the trimmed windows at the first n start offsets 0, step, 2*step, ...,
\* in order, without the empty ones
RECURSIVE C12_Windows(_)
C12_Windows(n) ==
    IF n = 0 THEN <<>>
    ELSE LET w == C12_Window((n - 1) * (ct_chunk_size - ct_overlap))
         IN  IF w = <<>> THEN C12_Windows(n - 1) ELSE Append(C12_Windows(n - 1), w)

\* how many start offsets 0, step, 2*step, ... lie below len(text)
C12_Offsets ==
    LET step == ct_chunk_size - ct_overlap
    IN  (Len(ct_text) + step - 1) \div step

\* what C12 says of one state of a call with well-formed sizes
C12_State ==
    C12_WellFormedSizes =>
        /\ ct_iter <= C12_Offsets
        /\ ct_start = ct_iter * (ct_chunk_size - ct_overlap)
        /\ ct_chunks = C12_Windows(ct_iter)
        /\ \A k \in 1..Len(ct_chunks) :
              /\ ct_chunks[k] # <<>>
              /\ ct_chunks[k][1] \notin Whitespace
              /\ ct_chunks[k][Len(ct_chunks[k])] \notin Whitespace
        /\ (ct_pc = "done") =>
              /\ ct_chunks = C12_Windows(C12_Offsets)
              /\ (ct_text = <<>>) => (ct_chunks = <<>>)

\* C12: for every text and every 0 <= overlap < chunk_size, chunk_text
\* terminates and returns, in order, exactly the trimmed substrings
\* text[s, s+chunk_size) for the start offsets s = 0, step, 2*step, ... below
\* len(text), step = chunk_size - overlap, omitting those empty after trimming;
\* every returned chunk is non-empty without leading or trailing whitespace,
\* and the empty string yields the empty sequence.
C12_TrimmedWindowsInOrder ==
    /\ []C12_State
    /\ C12_WellFormedSizes ~> (ct_pc = "done")

\* a call with a positive overlap returned two chunks or more and left out a
\* window that was blank
C12_Witness ==
    /\ ct_pc = "done"
    /\ C12_WellFormedSizes
    /\ ct_overlap > 0
    /\ Len(ct_chunks) >= 2
    /\ Len(ct_chunks) < ct_iter

-----------------------------------------------------------------------------
(* Reading the last operation *)

\* a request was handled and it called retrieve_context_tool
ToolCalled == last.op \in {"mcp", "direct"} /\ last.tool.called

\* the JSON text inside an MCP-formatted result: result["content"][0]["text"]
ContentText(result) == DictGet(DictGet(result, "content", PNone).v[1], "text", PNone)

\* the QueryResult a returned tool call carries
QueryResultOf(tool) == json_loads(ContentText(tool.value))

\* query, context_chunks and chunks_found are there and the count is the length
WellFormed(qr) ==
    /\ qr.t = "dict"
    /\ HasKey(qr, "query") /\ HasKey(qr, "context_chunks") /\ HasKey(qr, "chunks_found")
    /\ DictGet(qr, "context_chunks", PNone).t = "list"
    /\ DictGet(qr, "chunks_found", PNone) =
           PNum(Len(DictGet(qr, "context_chunks", PNone).v))

\* zero chunks and a warning
EmptyWithWarning(qr) ==
    /\ WellFormed(qr)
    /\ DictGet(qr, "context_chunks", PNone).v = <<>>
    /\ HasKey(qr, "warning")
    /\ DictGet(qr, "warning", PNone).t = "str"
    /\ DictGet(qr, "warning", PNone).v # <<>>

\* the arguments carry no query, or an empty one
QueryMissingOrEmpty(arguments) ==
    \/ arguments.t # "dict"
    \/ ~HasKey(arguments, "query")
    \/ DictGet(arguments, "query", PNone).t = "null"
    \/ DictGet(arguments, "query", PNone) = PStr(<<>>)

-----------------------------------------------------------------------------
(* Claims about the Query Service, checked under Spec *)

\* C1: retrieve_context_tool never raises to its caller: whatever arguments it
\* is handed, it returns a result whose JSON text has query, context_chunks
\* and chunks_found, chunks_found being the length of context_chunks, with
\* zero chunks and a warning on every failure path (no query, no collection,
\* an empty collection, a failing store call).
C1_ToolNeverRaises ==
    ToolCalled =>
        /\ last.tool.kind = "return"
        /\ WellFormed(QueryResultOf(last.tool))
        /\ (\/ QueryMissingOrEmpty(last.tool.arguments)
            \/ context_collection = "None"
            \/ Count(store) = 0
            \/ last.fault # "none") => EmptyWithWarning(QueryResultOf(last.tool))

\* the envelope's error code, for a response that has an error
ErrorCode(body) == DictGet(body.error, "code", PNone).v[1]

\* the request names the tool retrieve_context
NamesTool(request) ==
    /\ request.params.t = "dict"
    /\ DictGet(request.params, "name", PNone) = PStr(<<"retrieve_context">>)

\* C2: a request whose method is not tools/call, or whose tool name is not
\* retrieve_context, gets an envelope that echoes the id, has no result and
\* has an error with code -32601, never an HTTP-level failure; a tools/call
\* of retrieve_context gets an envelope with a result and no error.
C2_UnknownMethodOrTool ==
    last.op = "mcp" =>
        IF last.request.method = "tools/call" /\ NamesTool(last.request)
        THEN /\ last.http = 200
             /\ last.body.id = last.request.id
             /\ last.body.result # PNone
             /\ last.body.error = PNone
        ELSE /\ last.http = 200
             /\ last.body.id = last.request.id
             /\ last.body.result = PNone
             /\ last.body.error # PNone
             /\ ErrorCode(last.body) = -32601

\* C3 as stated: a request whose jsonrpc is not "2.0" gets an envelope with a
\* JSON-RPC error of code -32601 or -32603, not an HTTP-level error.
C3_VersionErrorEnvelope ==
    (last.op = "mcp" /\ last.request.jsonrpc # "2.0") =>
        /\ last.http = 200
        /\ last.body.error # PNone
        /\ ErrorCode(last.body) \in {-32601, -32603}

\* C3 (amended): a request whose jsonrpc is not "2.0" gets an HTTP-level error
\* with status 400 carrying the detail string and no JSON-RPC envelope,
\* whatever its method and params, and the tool is not called.
C3_VersionHttp400 ==
    (last.op = "mcp" /\ last.request.jsonrpc # "2.0") =>
        /\ last.http = 400
        /\ last.body.t = "str"
        /\ ~last.tool.called

\* a tools/call of retrieve_context with jsonrpc "1.0" was turned down
C3_Witness ==
    /\ last.op = "mcp"
    /\ last.request.jsonrpc = "1.0"
    /\ last.request.method = "tools/call"
    /\ NamesTool(last.request)
    /\ last.http = 400

\* C4: the checks come in a fixed order.  With a dictionary of arguments: a
\* missing or empty query gives zero chunks and a warning whatever the
\* collection's state, and no store call is made; otherwise an uninitialized
\* collection gives zero chunks and a warning; otherwise a collection counted
\* as empty gives zero chunks and the warning "No documents in collection",
\* and no nearest-neighbour query is issued.
C4_CheckOrder ==
    (ToolCalled /\ last.tool.arguments.t = "dict") =>
        LET qr == QueryResultOf(last.tool)
        IN  /\ last.tool.kind = "return"
            /\ QueryMissingOrEmpty(last.tool.arguments) =>
                   EmptyWithWarning(qr) /\ last.tool.calls = <<>>
            /\ (~QueryMissingOrEmpty(last.tool.arguments)
                /\ context_collection = "None") =>
                   EmptyWithWarning(qr) /\ last.tool.calls = <<>>
            /\ (~QueryMissingOrEmpty(last.tool.arguments)
                /\ context_collection # "None"
                /\ last.fault # "count"
                /\ Count(store) = 0) =>
                   /\ EmptyWithWarning(qr)
                   /\ DictGet(qr, "warning", PNone) = PStr(<<"No documents in collection">>)
                   /\ last.tool.calls = << <<"count">> >>

\* an empty query reached a started server whose collection holds chunks
C4_Witness ==
    /\ ToolCalled
    /\ last.tool.arguments = PDict(<< <<"query", PStr(<<>>)>> >>)
    /\ context_collection = "handle"
    /\ Count(store) > 0
    /\ EmptyWithWarning(QueryResultOf(last.tool))
    /\ last.tool.calls = <<>>

\* the field of every chunk of a QueryResult, in order
Field(qr, key) ==
    LET chunks == DictGet(qr, "context_chunks", PNone).v
    IN  [i \in 1..Len(chunks) |-> DictGet(chunks[i], key, PNone)]

\* C5: for a non-empty query string against a collection of document_count >= 1
\* chunks (and a store that answers), the tool asks the store for exactly
\* K = min(TOP_K, document_count) results, returns at most K chunks, the i-th
\* chunk being the store's i-th result with relevance_score = 1 - its distance,
\* so the chunks are in descending relevance_score.
C5_TopKInStoreOrder ==
    (/\ ToolCalled
     /\ last.tool.arguments.t = "dict"
     /\ DictGet(last.tool.arguments, "query", PNone).t = "str"
     /\ ~QueryMissingOrEmpty(last.tool.arguments)
     /\ context_collection # "None"
     /\ Count(store) >= 1
     /\ last.fault = "none") =>
        LET K       == IF TOP_K_RESULTS < Count(store) THEN TOP_K_RESULTS ELSE Count(store)
            q       == DictGet(last.tool.arguments, "query", PNone).v
            results == QueryStore(store.docs, q, K)
            qr      == QueryResultOf(last.tool)
            scores  == Field(qr, "relevance_score")
        IN  /\ last.tool.calls = << <<"count">>, <<"query", K>> >>
            /\ WellFormed(qr)
            /\ Len(scores) <= K
            /\ Len(scores) = Len(results.ids)
            /\ Field(qr, "chunk_id") = [i \in 1..Len(results.ids) |-> PStr(results.ids[i])]
            /\ Field(qr, "content") =
                   [i \in 1..Len(results.ids) |-> PStr(results.documents[i])]
            /\ \A i \in 1..Len(scores) : scores[i] = PNum(1 - results.distances[i])
            /\ \A i \in 1..Len(scores) : \A j \in i..Len(scores) :
                   scores[i].v[1] >= scores[j].v[1]

\* a query against more than TOP_K chunks came back with TOP_K chunks of
\* different scores, the first of them not the first chunk ingested
C5_Witness ==
    /\ ToolCalled
    /\ last.fault = "none"
    /\ Count(store) > TOP_K_RESULTS
    /\ last.tool.kind = "return"
    /\ LET qr == QueryResultOf(last.tool)
       IN  /\ Len(Field(qr, "relevance_score")) = TOP_K_RESULTS
           /\ Field(qr, "relevance_score")[1].v[1] > Field(qr, "relevance_score")[3].v[1]
           /\ Field(qr, "chunk_id")[1] # PStr(store.docs[1].id)

\* the tool-call envelope for a query string
ToolCallRequest(id, query) ==
    [id |-> id, jsonrpc |-> "2.0",
     params |-> PDict(<< <<"name", PStr(<<"retrieve_context">>)>>,
                         <<"arguments", PDict(<< <<"query", PStr(query)>> >>)>> >>),
     method |-> "tools/call"]

\* C6: the two request shapes are equivalent: in every state of the
\* collection, and with the store behaving the same way, POST /retrieve_context
\* with a query returns the object that JSON-decoding result.content[0].text
\* of the tool-call envelope for the same query gives.
C6_ShapesEquivalent ==
    /\ last.op = "direct" =>
          LET m == mcp_tools_call(ToolCallRequest(1, last.request.query),
                                  context_collection, store.docs, last.fault)
          IN  /\ last.http = 200
              /\ m.http = 200
              /\ m.body.result # PNone
              /\ last.body = json_loads(ContentText(m.body.result))
    /\ (/\ last.op = "mcp"
        /\ \E i \in 1..Len(Queries) :
              last.request = ToolCallRequest(last.request.id, Queries[i])) =>
          LET q == DictGet(DictGet(last.request.params, "arguments", PNone),
                           "query", PNone).v
              d == retrieve_context_direct([query |-> q], context_collection,
                                           store.docs, last.fault)
          IN  /\ last.http = 200
              /\ d.http = 200
              /\ last.body.result # PNone
              /\ d.body = json_loads(ContentText(last.body.result))

\* the direct endpoint answered a query with a quote and a character outside
\* ASCII by chunks
C6_Witness ==
    /\ last.op = "direct"
    /\ last.request.query = <<"b", "\"", NonAscii>>
    /\ last.http = 200
    /\ DictGet(last.body, "context_chunks", PNone).v # <<>>
    /\ DictGet(last.body, "query", PNone) = PStr(last.request.query)

-----------------------------------------------------------------------------
(* Claims about the Ingestor, checked under Spec *)

\* the identifiers the Collection held for this file before the last ingest
IdsBefore(file_path) ==
    {last.before.docs[i].id : i \in
        {k \in 1..Len(last.before.docs) :
            last.before.docs[k].metadata.source_file = Basename(file_path)}}

\* C9: ingesting the same file again produces identifiers disjoint from those
\* of its earlier ingests (nothing is overwritten), the identifiers of one run
\* are pairwise distinct, and the Collection's count grows by exactly the
\* number of chunks the run reports, each time.
C9_FreshIdsExactCount ==
    last.op = "ingest" =>
        /\ \A i, j \in 1..Len(last.ids) : i # j => last.ids[i] # last.ids[j]
        /\ {last.ids[i] : i \in 1..Len(last.ids)} \cap IdsBefore(last.file_path) = {}
        /\ Count(store) - Count(last.before) = last.returned

-----------------------------------------------------------------------------
(* Claims about clear_collection and about the Collection over time *)

\* C11: Clear deletes the entire Collection and recreates it empty: from every
\* starting state of the store (collection absent, present and empty, present
\* and non-empty), after a clear_collection in which no store call failed, the
\* Collection exists, its document count is 0, and True was returned.
C11_ClearLeavesEmptyCollection ==
    (last.op = "clear" /\ last.called /\ last.fault = "none") =>
        /\ store.exists
        /\ Count(store) = 0
        /\ last.returned = TRUE

\* the step is a clear_collection that ran (the answer was "yes")
C13_ClearStep == last' # last /\ last'.op = "clear" /\ last'.called

\* the step is a request to either endpoint, a health check or a Stats
C13_ReadStep == last' # last /\ last'.op \in {"mcp", "direct", "health", "stats"}

\* every chunk stored before the step is stored after it, as it was and in
\* its place: chunks were at most added
C13_Kept ==
    /\ Len(store.docs) <= Len(store'.docs)
    /\ SubSeq(store'.docs, 1, Len(store.docs)) = store.docs

\* C13: over any sequence and interleaving of Ingest, Clear, Stats, health
\* check and RetrieveContext operations, the Collection's contents are
\* append-only except for Clear: a request to either endpoint, the health
\* check and Stats leave the stored chunks unchanged, Ingest only adds chunks
\* and never removes or overwrites one, and the document count decreases only
\* in a step of Clear.
C13_AppendOnlyExceptClear ==
    [][/\ C13_ClearStep \/ C13_Kept
       /\ C13_ReadStep => store'.docs = store.docs
       /\ (last' = last) => store'.docs = store.docs
       /\ (Count(store') < Count(store)) => C13_ClearStep]_vars

\* an Ingest added chunks to a Collection that held some, and the earlier
\* chunks are still there
C13_Witness ==
    /\ last.op = "ingest"
    /\ Count(last.before) > 0
    /\ Count(store) > Count(last.before)
    /\ SubSeq(store.docs, 1, Count(last.before)) = last.before.docs

====
